---- MODULE Spec2Model ----
(***************************************************************************)
(* Model of the TLV493D driver (src/adafruit_tlv493d.py).                  *)
(*                                                                         *)
(* A session owns a 10-byte read buffer and a 4-byte write buffer.         *)
(* Construction reads the device, copies the reserved fields RES1..RES3    *)
(* into the write buffer, sets PARITY, LOWPOWER and LP_PERIOD and writes   *)
(* the buffer.  Every `magnetic` query reads the device again and decodes  *)
(* three signed 12-bit samples.                                            *)
(*                                                                         *)
(* The I2C bus is the environment: it records every call made on it in     *)
(* `log` (try_lock, readinto, write, unlock), like a call-recording mock,  *)
(* and any readinto or write may raise a transport error.                  *)
(*                                                                         *)
(* Bytes are integers 0..255 and buffers are functions from a 0-based      *)
(* index, as in the source.  Readings are kept in thousandths of a         *)
(* microtesla, so that the factor 0.098 is the integer 98.                 *)
(***************************************************************************)
EXTENDS Integers, Sequences, FiniteSets, TLC

VARIABLES
    pc,            \* position of the caller in __init__ / magnetic
    read_buffer,   \* self.read_buffer
    write_buffer,  \* self.write_buffer
    locked,        \* the bus is held by the `with self.i2c_device` block
    exc,           \* a transport error is propagating / was raised by the last call
    log,           \* every call the bus has seen, in order
    queries,       \* number of `magnetic` calls started
    result,        \* value returned by the last `magnetic` call that returned
    device,        \* the 10 registers the device would return on a read
    args           \* <<key, value>> of a direct _set_write_key call

vars == <<pc, read_buffer, write_buffer, locked, exc, log, queries, result, device, args>>

----------------------------------------------------------------------------
(* Bounds and program constants *)

\* number of magnetic queries explored after construction
MaxQueries == 2

\* bytearray(10), bytearray(4)
ReadLen == 10
WriteLen == 4

\* 0.098 microtesla per LSB, in thousandths
Scale == 98

Byte == 0..255

----------------------------------------------------------------------------
(* Bit operations on Python integers *)

RECURSIVE BitAnd(_, _)
BitAnd(a, b) ==
    IF a = 0 \/ b = 0 THEN 0
    ELSE (a % 2) * (b % 2) + 2 * BitAnd(a \div 2, b \div 2)

RECURSIVE BitOr(_, _)
BitOr(a, b) ==
    IF a = 0 THEN b
    ELSE IF b = 0 THEN a
    ELSE (IF a % 2 = 1 \/ b % 2 = 1 THEN 1 ELSE 0) + 2 * BitOr(a \div 2, b \div 2)

\* a & ~m for a >= 0, m >= 0: ~m has every bit above m's set, so a's high bits stay
RECURSIVE BitAndNot(_, _)
BitAndNot(a, m) ==
    IF a = 0 THEN 0
    ELSE (a % 2) * (1 - (m % 2)) + 2 * BitAndNot(a \div 2, m \div 2)

RECURSIVE Pow2(_)
Pow2(n) == IF n = 0 THEN 1 ELSE 2 * Pow2(n - 1)

ShiftLeft(a, n) == a * Pow2(n)
ShiftRight(a, n) == a \div Pow2(n)

----------------------------------------------------------------------------
(* Field tables: name |-> <<byte index, mask, shift>> *)

read_masks ==
    [ BX1           |-> <<0, 255, 0>>,
      BX2           |-> <<4, 240, 4>>,
      BY1           |-> <<1, 255, 0>>,
      BY2           |-> <<4, 15, 0>>,
      BZ1           |-> <<2, 255, 0>>,
      BZ2           |-> <<5, 15, 0>>,
      TEMP1         |-> <<3, 240, 4>>,
      TEMP2         |-> <<6, 255, 0>>,
      FRAMECOUNTER  |-> <<3, 12, 2>>,
      CHANNEL       |-> <<3, 3, 0>>,
      POWERDOWNFLAG |-> <<5, 16, 4>>,
      RES1          |-> <<7, 24, 3>>,
      RES2          |-> <<8, 255, 0>>,
      RES3          |-> <<9, 31, 0>> ]

write_masks ==
    [ PARITY       |-> <<1, 128, 7>>,
      ADDR         |-> <<1, 96, 5>>,
      INT          |-> <<1, 4, 2>>,
      FAST         |-> <<1, 2, 1>>,
      LOWPOWER     |-> <<1, 1, 0>>,
      TEMP_DISABLE |-> <<3, 128, 7>>,
      LP_PERIOD    |-> <<3, 64, 6>>,
      POWERDOWN    |-> <<3, 32, 5>>,
      RES1         |-> <<1, 24, 3>>,
      RES2         |-> <<2, 255, 0>>,
      RES3         |-> <<3, 31, 0>> ]

WriteKeys == DOMAIN write_masks

----------------------------------------------------------------------------
(* Register field codec *)

\* faulty variant: the masked bits are not shifted down
get_read_key_unshifted(rbuf, key) ==
    BitAnd(rbuf[read_masks[key][1]], read_masks[key][2])

\* _get_read_key: (read_buffer[byte] & mask) >> shift
get_read_key(rbuf, key) ==
    LET read_byte_num  == read_masks[key][1]
        read_mask      == read_masks[key][2]
        read_shift     == read_masks[key][3]
        raw_read_value == rbuf[read_byte_num]
    IN  ShiftRight(BitAnd(raw_read_value, read_mask), read_shift)

\* faulty variant: the field's old bits are not cleared before the OR
set_write_key_no_clear(wbuf, key, value) ==
    LET write_byte_num == write_masks[key][1]
        write_shift    == write_masks[key][3]
    IN  [wbuf EXCEPT ![write_byte_num] =
             BitOr(wbuf[write_byte_num], ShiftLeft(value, write_shift))]

\* _set_write_key: byte = (byte & ~mask) | (value << shift)
set_write_key(wbuf, key, value) ==
    LET write_byte_num == write_masks[key][1]
        write_mask     == write_masks[key][2]
        write_shift    == write_masks[key][3]
        cleared        == BitAndNot(wbuf[write_byte_num], write_mask)
        current_write_byte == BitOr(cleared, ShiftLeft(value, write_shift))
    IN  [wbuf EXCEPT ![write_byte_num] = current_write_byte]

----------------------------------------------------------------------------
(* Decoding *)

\* faulty variant: the word is unpacked unsigned (">H")
unpack_h_unsigned(top, bottom) == top * 256 + bottom

\* struct.unpack_from(">h", bytearray([top, bottom]))[0]
unpack_h(top, bottom) ==
    LET word == top * 256 + bottom
    IN  IF word >= 32768 THEN word - 65536 ELSE word

\* _unpack_and_scale: (binval >> 4) * 0.098, in thousandths
unpack_and_scale(top, bottom) ==
    LET binval == unpack_h(top, bottom)
    IN  ShiftRight(binval, 4) * Scale

\* the decoding part of `magnetic`, after the read
magnetic_decode(rbuf) ==
    LET x_top == get_read_key(rbuf, "BX1")
        x_bot == BitAnd(ShiftLeft(get_read_key(rbuf, "BX2"), 4), 255)
        y_top == get_read_key(rbuf, "BY1")
        y_bot == BitAnd(ShiftLeft(get_read_key(rbuf, "BY2"), 4), 255)
        z_top == get_read_key(rbuf, "BZ1")
        z_bot == BitAnd(ShiftLeft(get_read_key(rbuf, "BZ2"), 4), 255)
    IN  << unpack_and_scale(x_top, x_bot),
           unpack_and_scale(y_top, y_bot),
           unpack_and_scale(z_top, z_bot) >>

----------------------------------------------------------------------------
(* Construction helpers *)

\* bytearray(n)
bytearray(n) == [i \in 0..(n - 1) |-> 0]

\* the loop of _setup_write_buffer, after the read
copy_reserved(wbuf, rbuf) ==
    LET w1 == set_write_key(wbuf, "RES1", get_read_key(rbuf, "RES1"))
        w2 == set_write_key(w1, "RES2", get_read_key(rbuf, "RES2"))
        w3 == set_write_key(w2, "RES3", get_read_key(rbuf, "RES3"))
    IN  w3

\* faulty variant: LOWPOWER is left out
configure_without_lowpower(wbuf) ==
    LET w1 == [wbuf EXCEPT ![1] = BitOr(BitAndNot(wbuf[1], 128), 128)]
        w2 == [w1 EXCEPT ![3] = BitOr(BitAndNot(w1[3], 64), 64)]
    IN  w2

\* the four _set_write_key calls of __init__
configure(wbuf) ==
    LET w1 == set_write_key(wbuf, "PARITY", 1)
        w2 == set_write_key(w1, "PARITY", 1)
        w3 == set_write_key(w2, "LOWPOWER", 1)
        w4 == set_write_key(w3, "LP_PERIOD", 1)
    IN  w4

----------------------------------------------------------------------------
(* The bus, as the driver sees it *)

NoData == << >>

Call(op, ok, data) == [op |-> op, ok |-> ok, data |-> data]

\* `with self.i2c_device as i2c:` entered: the bus is locked
with_enter(from, to) ==
    /\ pc = from
    /\ ~locked
    /\ locked' = TRUE
    /\ log' = Append(log, Call("try_lock", TRUE, NoData))
    /\ pc' = to

\* what a failed readinto may leave in the buffer: the first n bytes transferred
partial_fill(rbuf, n) ==
    [i \in 0..(ReadLen - 1) |-> IF i < n THEN device[i] ELSE rbuf[i]]

\* i2c.readinto(self.read_buffer): fills the whole buffer, or raises
readinto(from, to) ==
    /\ pc = from
    /\ locked
    /\ \/ /\ read_buffer' = device
          /\ log' = Append(log, Call("readinto", TRUE, device))
          /\ exc' = FALSE
       \/ /\ \E n \in 0..(ReadLen - 1) : read_buffer' = partial_fill(read_buffer, n)
          /\ log' = Append(log, Call("readinto", FALSE, NoData))
          /\ exc' = TRUE
    /\ pc' = to

\* i2c.write(self.write_buffer): sends the whole buffer, or raises
write(from, to) ==
    /\ pc = from
    /\ locked
    /\ \/ /\ log' = Append(log, Call("write", TRUE, write_buffer))
          /\ exc' = FALSE
       \/ /\ log' = Append(log, Call("write", FALSE, NoData))
          /\ exc' = TRUE
    /\ pc' = to

\* faulty variant: the bus is released only when the transaction succeeded
released_on_exit_unless_raised(raised) == ~raised

\* whether leaving the `with` block releases the bus (it always does)
released_on_exit(raised) == TRUE

\* the `with` block is left: the bus is released, a pending error propagates
with_exit(from, to, to_raised) ==
    /\ pc = from
    /\ locked
    /\ locked' = ~released_on_exit(exc)
    /\ log' = IF released_on_exit(exc)
              THEN Append(log, Call("unlock", TRUE, NoData))
              ELSE log
    /\ pc' = IF exc THEN to_raised ELSE to

----------------------------------------------------------------------------
(* TLV493D.__init__ *)

\* _setup_write_buffer -> _read_i2c
init_read_enter ==
    /\ with_enter("init", "init_readinto")
    /\ UNCHANGED <<read_buffer, write_buffer, exc, queries, result, device, args>>

init_readinto ==
    /\ readinto("init_readinto", "init_read_exit")
    /\ UNCHANGED <<write_buffer, locked, queries, result, device, args>>

\* faulty variant: the error of the initial read is swallowed
init_read_exit_swallows ==
    /\ with_exit("init_read_exit", "init_copy", "init_copy")
    /\ UNCHANGED <<read_buffer, write_buffer, exc, queries, result, device, args>>

init_read_exit ==
    /\ with_exit("init_read_exit", "init_copy", "failed")
    /\ UNCHANGED <<read_buffer, write_buffer, exc, queries, result, device, args>>

\* _setup_write_buffer: RES1, RES2, RES3 copied from the read buffer
init_setup_write_buffer ==
    /\ pc = "init_copy"
    /\ write_buffer' = copy_reserved(write_buffer, read_buffer)
    /\ pc' = "init_configure"
    /\ UNCHANGED <<read_buffer, locked, exc, log, queries, result, device, args>>

\* faulty variant: the configuration is never written to the device
init_set_write_keys_skips_write ==
    /\ pc = "init_configure"
    /\ write_buffer' = configure(write_buffer)
    /\ pc' = "ready"
    /\ UNCHANGED <<read_buffer, locked, exc, log, queries, result, device, args>>

\* PARITY, PARITY, LOWPOWER, LP_PERIOD, then on to _write_i2c
init_set_write_keys ==
    /\ pc = "init_configure"
    /\ write_buffer' = configure(write_buffer)
    /\ pc' = "init_write"
    /\ UNCHANGED <<read_buffer, locked, exc, log, queries, result, device, args>>

\* _write_i2c
init_write_enter ==
    /\ with_enter("init_write", "init_write_io")
    /\ UNCHANGED <<read_buffer, write_buffer, exc, queries, result, device, args>>

init_write ==
    /\ write("init_write_io", "init_write_exit")
    /\ UNCHANGED <<read_buffer, write_buffer, locked, queries, result, device, args>>

\* the session is returned to the caller, or construction raises
init_write_exit ==
    /\ with_exit("init_write_exit", "ready", "failed")
    /\ UNCHANGED <<read_buffer, write_buffer, exc, queries, result, device, args>>

----------------------------------------------------------------------------
(* TLV493D.magnetic *)

\* the property is read: _read_i2c
magnetic_read_enter ==
    /\ queries < MaxQueries
    /\ with_enter("ready", "mag_readinto")
    /\ queries' = queries + 1
    /\ exc' = FALSE
    /\ UNCHANGED <<read_buffer, write_buffer, result, device, args>>

magnetic_readinto ==
    /\ readinto("mag_readinto", "mag_read_exit")
    /\ UNCHANGED <<write_buffer, locked, queries, result, device, args>>

\* faulty variant: a failed query invalidates the session
magnetic_read_exit_invalidates ==
    /\ with_exit("mag_read_exit", "mag_decode", "failed")
    /\ UNCHANGED <<read_buffer, write_buffer, exc, queries, result, device, args>>

\* a transport error leaves through the caller; the session object is untouched
magnetic_read_exit ==
    /\ with_exit("mag_read_exit", "mag_decode", "ready")
    /\ UNCHANGED <<read_buffer, write_buffer, exc, queries, result, device, args>>

\* faulty variant: every query writes the configuration again
magnetic_return_rewrites ==
    /\ pc = "mag_decode"
    /\ result' = magnetic_decode(read_buffer)
    /\ pc' = "init_write"
    /\ UNCHANGED <<read_buffer, write_buffer, locked, exc, log, queries, device, args>>

\* faulty variant: every query copies the reserved fields again
magnetic_return_refreshes ==
    /\ pc = "mag_decode"
    /\ result' = magnetic_decode(read_buffer)
    /\ write_buffer' = copy_reserved(write_buffer, read_buffer)
    /\ pc' = "ready"
    /\ UNCHANGED <<read_buffer, locked, exc, log, queries, device, args>>

\* the three axes are decoded and returned
magnetic_return ==
    /\ pc = "mag_decode"
    /\ result' = magnetic_decode(read_buffer)
    /\ pc' = "ready"
    /\ UNCHANGED <<read_buffer, write_buffer, locked, exc, log, queries, device, args>>

----------------------------------------------------------------------------
(* The device *)

Frame(t) == [i \in 0..(ReadLen - 1) |-> t[i + 1]]

\* register contents the device may show, with differing samples and reserved bits
DeviceFrames ==
    { Frame(<<0, 0, 0, 0, 0, 0, 0, 0, 0, 0>>),
      Frame(<<255, 255, 255, 255, 255, 255, 255, 255, 255, 255>>),
      Frame(<<127, 128, 1, 60, 245, 26, 85, 107, 165, 234>>),
      Frame(<<128, 255, 127, 3, 15, 240, 170, 16, 90, 21>>) }

\* the device takes a new measurement; its registers change
device_sample ==
    /\ device' \in DeviceFrames \ {device}
    /\ UNCHANGED <<pc, read_buffer, write_buffer, locked, exc, log, queries, result, args>>

----------------------------------------------------------------------------
(* The session: construction, then queries, on a device that keeps sampling *)

NoResult == << >>

Init ==
    /\ pc = "init"
    /\ read_buffer = bytearray(ReadLen)
    /\ write_buffer = bytearray(WriteLen)
    /\ locked = FALSE
    /\ exc = FALSE
    /\ log = << >>
    /\ queries = 0
    /\ result = NoResult
    /\ device \in DeviceFrames
    /\ args = << >>

Next ==
    \/ init_read_enter
    \/ init_readinto
    \/ init_read_exit
    \/ init_setup_write_buffer
    \/ init_set_write_keys
    \/ init_write_enter
    \/ init_write
    \/ init_write_exit
    \/ magnetic_read_enter
    \/ magnetic_readinto
    \/ magnetic_read_exit
    \/ magnetic_return
    \/ device_sample

Spec == Init /\ [][Next]_vars

----------------------------------------------------------------------------
(* The session on a device whose registers hold any one of a wide family   *)
(* of contents: every value of every single byte, every top byte against   *)
(* sampled nibble bytes and conversely, and combinations of reserved bytes *)

Fills == {0, 255}

TopSamples == {0, 1, 127, 128, 254, 255}

NibbleSamples == {0, 15, 90, 165, 240, 255}

ResSamples == {0, 24, 31, 85, 170, 231, 255}

OneByteFrames ==
    { [i \in 0..(ReadLen - 1) |-> IF i = k THEN v ELSE f] :
        k \in 0..(ReadLen - 1), v \in Byte, f \in Fills }

AxisFrames ==
    { [i \in 0..(ReadLen - 1) |->
          IF i \in {0, 1, 2} THEN p[1] ELSE IF i \in {4, 5} THEN p[2] ELSE 0] :
        p \in (Byte \X NibbleSamples) \cup (TopSamples \X Byte) }

ResFrames ==
    { [i \in 0..(ReadLen - 1) |->
          IF i = 7 THEN r[1] ELSE IF i = 8 THEN r[2] ELSE IF i = 9 THEN r[3] ELSE 90] :
        r \in ResSamples \X ResSamples \X ResSamples }

WideFrames == OneByteFrames \cup AxisFrames \cup ResFrames \cup DeviceFrames

InitFrames ==
    /\ pc = "init"
    /\ read_buffer = bytearray(ReadLen)
    /\ write_buffer = bytearray(WriteLen)
    /\ locked = FALSE
    /\ exc = FALSE
    /\ log = << >>
    /\ queries = 0
    /\ result = NoResult
    /\ device \in WideFrames
    /\ args = << >>

NextFrames ==
    \/ init_read_enter
    \/ init_readinto
    \/ init_read_exit
    \/ init_setup_write_buffer
    \/ init_set_write_keys
    \/ init_write_enter
    \/ init_write
    \/ init_write_exit
    \/ magnetic_read_enter
    \/ magnetic_readinto
    \/ magnetic_read_exit
    \/ magnetic_return

SpecFrames == InitFrames /\ [][NextFrames]_vars

----------------------------------------------------------------------------
(* The field codec alone: one _set_write_key call on any write buffer byte *)

\* the values that fit the field's width: 0 .. mask >> shift
FieldValues(key) == 0..ShiftRight(write_masks[key][2], write_masks[key][3])

\* write buffers: any value in the field's byte, the other bytes all 0 or all 1 bits
CodecBuffer(key, b, f) ==
    [i \in 0..(WriteLen - 1) |-> IF i = write_masks[key][1] THEN b ELSE f]

InitCodec ==
    /\ pc = "set_write_key"
    /\ read_buffer = bytearray(ReadLen)
    /\ \E key \in WriteKeys :
         /\ \E b \in Byte, f \in Fills : write_buffer = CodecBuffer(key, b, f)
         /\ \E value \in FieldValues(key) : args = <<key, value>>
    /\ locked = FALSE
    /\ exc = FALSE
    /\ log = << >>
    /\ queries = 0
    /\ result = NoResult
    /\ device = bytearray(ReadLen)

\* self._set_write_key(key, value)
set_write_key_call ==
    /\ pc = "set_write_key"
    /\ write_buffer' = set_write_key(write_buffer, args[1], args[2])
    /\ pc' = "set_write_key_done"
    /\ UNCHANGED <<read_buffer, locked, exc, log, queries, result, device, args>>

NextCodec == set_write_key_call

SpecCodec == InitCodec /\ [][NextCodec]_vars

----------------------------------------------------------------------------
(* What the bus has seen *)

IsRead(e) == e.op = "readinto"
IsWrite(e) == e.op = "write"
IsTxn(e) == IsRead(e) \/ IsWrite(e)
IsOkRead(e) == IsRead(e) /\ e.ok

\* the read and write transactions, in order, without the lock calls
Txns == SelectSeq(log, IsTxn)

Reads == Len(SelectSeq(log, IsRead))
Writes == Len(SelectSeq(log, IsWrite))

\* the content of the most recent read that succeeded
LastRead ==
    LET ok == SelectSeq(log, IsOkRead)
    IN  ok[Len(ok)].data

\* the caller holds a session: __init__ has returned
Constructed == pc \in {"ready", "mag_readinto", "mag_read_exit", "mag_decode"}

----------------------------------------------------------------------------
(* Claims about the session (Spec) *)

\* C1: construction on a transport that does not fail issues exactly two bus
\* transactions, one readinto of the read buffer followed by one write of the
\* write buffer, and every update of the write buffer happens after the read
\* and before the write.
C1_ConstructionReadsThenWrites ==
    /\ [](pc = "ready" /\ queries = 0 =>
            /\ Len(Txns) = 2
            /\ IsRead(Txns[1]) /\ Txns[1].ok /\ DOMAIN Txns[1].data = 0..(ReadLen - 1)
            /\ IsWrite(Txns[2]) /\ Txns[2].ok /\ DOMAIN Txns[2].data = 0..(WriteLen - 1))
    /\ [][write_buffer' # write_buffer =>
            /\ Len(Txns) = 1 /\ IsRead(Txns[1]) /\ Txns[1].ok
            /\ Txns' = Txns]_vars

C1_Witness ==
    /\ pc = "ready" /\ queries = 0 /\ ~exc
    /\ Len(Txns) = 2
    /\ write_buffer # bytearray(WriteLen)

\* C4: a magnetic query issues exactly one read transaction and no write
\* transaction: once n queries have been made on a constructed session the bus
\* has seen 1 + n reads and 1 write, and while a query is running it has seen
\* 1 write and n or n + 1 reads.
C4_OneReadPerQuery ==
    Constructed =>
        /\ Writes = 1
        /\ Reads = IF pc = "mag_readinto" THEN queries ELSE 1 + queries

C4_Witness ==
    /\ pc = "ready" /\ ~exc
    /\ queries = 2
    /\ Reads = 3
    /\ Writes = 1

\* C7: a transport failure in the read or in the write of construction ends
\* construction with the error: no session is ever returned, nothing is sent
\* after the failed transaction (no write after a failed read, no retry), and
\* a failed construction stays failed.
C7_ConstructionFailureIsFatal ==
    /\ [](Len(Txns) >= 1 /\ ~Txns[1].ok =>
            /\ pc \in {"init_read_exit", "failed"}
            /\ Len(Txns) = 1
            /\ queries = 0)
    /\ [](Len(Txns) >= 2 /\ ~Txns[2].ok =>
            /\ pc \in {"init_write_exit", "failed"}
            /\ Len(Txns) = 2
            /\ queries = 0)
    /\ [](pc = "failed" => exc /\ ~Txns[Len(Txns)].ok)
    /\ [][pc = "failed" => pc' = "failed" /\ log' = log]_vars

C7_Witness ==
    /\ pc = "failed"
    /\ Len(Txns) = 1
    /\ IsRead(Txns[1]) /\ ~Txns[1].ok
    /\ Writes = 0

\* C8: the bus is locked immediately before and unlocked immediately after
\* each single transaction, also when the transaction fails: every readinto or
\* write in the bus log directly follows a try_lock and is directly followed by
\* the unlock, and the bus is not held before construction, when construction
\* has failed, or between queries.
C8_BusHeldPerTransaction ==
    /\ pc \in {"init", "ready", "failed"} => ~locked
    /\ \A i \in 1..Len(log) :
         IsTxn(log[i]) =>
            /\ i > 1 /\ log[i - 1].op = "try_lock"
            /\ i < Len(log) => log[i + 1].op = "unlock"
            /\ i = Len(log) => locked
    /\ locked <=> (\E i \in 1..Len(log) :
                     /\ log[i].op = "try_lock"
                     /\ \A j \in (i + 1)..Len(log) : log[j].op # "unlock")

C8_Witness ==
    /\ pc = "ready" /\ exc /\ ~locked
    /\ Len(log) >= 3
    /\ log[Len(log)].op = "unlock"
    /\ IsRead(log[Len(log) - 1]) /\ ~log[Len(log) - 1].ok
    /\ log[Len(log) - 2].op = "try_lock"


\* C5 as stated: in every state after construction the write buffer's RES1,
\* RES2 and RES3 equal those of the read buffer as filled by the most recent
\* read transaction.
C5_ReservedFollowLastRead ==
    Constructed =>
        /\ BitAnd(write_buffer[1], 24) = BitAnd(LastRead[7], 24)
        /\ write_buffer[2] = LastRead[8]
        /\ BitAnd(write_buffer[3], 31) = BitAnd(LastRead[9], 31)

\* C5 as amended: in every state after construction the write buffer's RES1,
\* RES2 and RES3 equal those returned by the read transaction of construction;
\* the reads of later magnetic queries do not change them.
C5_ReservedFollowConstructionRead ==
    Constructed =>
        /\ BitAnd(write_buffer[1], 24) = BitAnd(Txns[1].data[7], 24)
        /\ write_buffer[2] = Txns[1].data[8]
        /\ BitAnd(write_buffer[3], 31) = BitAnd(Txns[1].data[9], 31)

C5_Witness ==
    /\ pc = "ready" /\ ~exc /\ queries >= 1
    /\ BitAnd(LastRead[7], 24) # BitAnd(Txns[1].data[7], 24)
    /\ LastRead[8] # Txns[1].data[8]
    /\ BitAnd(write_buffer[1], 24) = BitAnd(Txns[1].data[7], 24)
    /\ write_buffer[2] = Txns[1].data[8]

\* C6: a transport failure during a magnetic query ends only that query: the
\* error reaches the caller after the one failed read (no second read), no
\* step of a query changes the write buffer, the session is ready again with
\* the bus free so that the next query can start, and a query whose read
\* succeeds returns the three values decoded from the bytes of that read.
C6_QueryFailureIsNotFatal ==
    /\ [](pc = "ready" /\ exc =>
            /\ queries >= 1
            /\ IsRead(Txns[Len(Txns)]) /\ ~Txns[Len(Txns)].ok
            /\ Reads = 1 + queries /\ Writes = 1
            /\ ~locked
            /\ (queries < MaxQueries => ENABLED magnetic_read_enter))
    /\ [](pc = "ready" /\ ~exc /\ queries >= 1 =>
            /\ Txns[Len(Txns)].ok
            /\ read_buffer = LastRead
            /\ result = magnetic_decode(Txns[Len(Txns)].data))
    /\ [][Constructed => write_buffer' = write_buffer]_vars
    /\ [][pc = "mag_read_exit" /\ exc /\ pc' # pc => pc' = "ready" /\ exc']_vars

C6_Witness ==
    /\ pc = "ready" /\ ~exc /\ queries = 2
    /\ Len(Txns) = 4
    /\ ~Txns[3].ok
    /\ Txns[4].ok /\ Txns[4].data # Txns[1].data
    /\ read_buffer = Txns[4].data
    /\ result = magnetic_decode(Txns[4].data)
    /\ result # <<0, 0, 0>>

----------------------------------------------------------------------------
(* Claims about construction and decoding on any device content (SpecFrames) *)

\* C2: whatever the device returns on the initial read, the write buffer that
\* construction builds and transmits carries the reserved fields of that read:
\* write byte 1 under mask 0x18 equals read byte 7 under 0x18, write byte 2
\* equals read byte 8, write byte 3 under 0x1F equals read byte 9 under 0x1F,
\* right after the copy as well as after the PARITY/LOWPOWER/LP_PERIOD updates.
C2_ReservedCopiedFromInitialRead ==
    LET t == Txns
        Carries(w, r) ==
            /\ BitAnd(w[1], 24) = BitAnd(r[7], 24)
            /\ w[2] = r[8]
            /\ BitAnd(w[3], 31) = BitAnd(r[9], 31)
    IN  /\ pc \in {"init_configure", "init_write", "init_write_io"} =>
              Carries(write_buffer, t[1].data)
        /\ Len(t) >= 2 /\ t[2].ok =>
              Carries(t[2].data, t[1].data)

C2_Witness ==
    /\ pc = "ready" /\ queries = 0
    /\ Txns[1].data[7] = 255 /\ Txns[1].data[8] = 85 /\ Txns[1].data[9] = 170
    /\ IsWrite(Txns[2]) /\ Txns[2].ok
    /\ BitAnd(Txns[2].data[1], 24) = 24
    /\ Txns[2].data[2] = 85
    /\ BitAnd(Txns[2].data[3], 31) = 10

\* C3: for every read buffer b a magnetic query returns, per axis, 0.098 times
\* the 12-bit two's-complement value of X = b[0]*16 + (b[4] >> 4),
\* Y = b[1]*16 + (b[4] AND 0x0F), Z = b[2]*16 + (b[5] AND 0x0F); each raw value
\* lies in -2048..2047 (0x7F with nibble 0xF is 2047, 0xFF with nibble 0xF is
\* -1, all zero is 0) and an axis depends on no bits but its own two fields.
C3_MagneticDecodesSigned12 ==
    pc = "ready" /\ ~exc /\ queries >= 1 =>
        LET b == Txns[Len(Txns)].data
            Signed12(v) == IF v >= 2048 THEN v - 4096 ELSE v
            X == Signed12(b[0] * 16 + (b[4] \div 16))
            Y == Signed12(b[1] * 16 + (b[4] % 16))
            Z == Signed12(b[2] * 16 + (b[5] % 16))
        IN  /\ result = <<Scale * X, Scale * Y, Scale * Z>>
            /\ {X, Y, Z} \subseteq -2048..2047
            /\ \A a \in 1..3 :
                  result[a] % Scale = 0 /\ (result[a] \div Scale) \in -2048..2047
            /\ (b[0] = 127 /\ b[4] \div 16 = 15 => result[1] = Scale * 2047)
            /\ (b[0] = 255 /\ b[4] \div 16 = 15 => result[1] = 0 - Scale)
            /\ (b[0] = 0 /\ b[4] \div 16 = 0 => result[1] = 0)
            /\ (b[1] = 127 /\ b[4] % 16 = 15 => result[2] = Scale * 2047)
            /\ (b[1] = 255 /\ b[4] % 16 = 15 => result[2] = 0 - Scale)
            /\ (b[2] = 127 /\ b[5] % 16 = 15 => result[3] = Scale * 2047)
            /\ (b[2] = 255 /\ b[5] % 16 = 15 => result[3] = 0 - Scale)

C3_Witness ==
    /\ pc = "ready" /\ ~exc /\ queries = 1
    /\ read_buffer[0] = 127 /\ read_buffer[1] = 128 /\ read_buffer[2] = 1
    /\ read_buffer[4] = 245 /\ read_buffer[5] = 26
    /\ result = <<Scale * 2047, Scale * (0 - 2043), Scale * 26>>

\* C10: whatever the device returns on the initial read, the four bytes that
\* construction transmits are 0x00, 0x81 OR (read[7] AND 0x18), read[8],
\* 0x40 OR (read[9] AND 0x1F): PARITY, LOWPOWER and LP_PERIOD are 1, ADDR, INT,
\* FAST, TEMP_DISABLE and POWERDOWN are 0, byte 0 is 0; and setting PARITY to 1
\* a second time leaves the buffer as the first did.
C10_TransmittedConfiguration ==
    /\ LET t == Txns
           r == t[1].data
           w == t[2].data
       IN  Len(t) >= 2 /\ t[2].ok =>
              /\ IsWrite(t[2])
              /\ w[0] = 0
              /\ w[1] = BitOr(129, BitAnd(r[7], 24))
              /\ w[2] = r[8]
              /\ w[3] = BitOr(64, BitAnd(r[9], 31))
              /\ BitAnd(w[1], 128) = 128 /\ BitAnd(w[1], 1) = 1 /\ BitAnd(w[3], 64) = 64
              /\ BitAnd(w[1], 96) = 0 /\ BitAnd(w[1], 4) = 0 /\ BitAnd(w[1], 2) = 0
              /\ BitAnd(w[3], 128) = 0 /\ BitAnd(w[3], 32) = 0
    /\ pc = "init_configure" =>
          LET once == set_write_key(write_buffer, "PARITY", 1)
          IN  /\ set_write_key(once, "PARITY", 1) = once
              /\ configure(write_buffer) =
                     set_write_key(set_write_key(once, "LOWPOWER", 1), "LP_PERIOD", 1)

C10_Witness ==
    /\ pc = "ready" /\ queries = 0
    /\ Txns[1].data[7] = 107 /\ Txns[1].data[8] = 165 /\ Txns[1].data[9] = 234
    /\ Txns[2].ok
    /\ Txns[2].data = [i \in 0..(WriteLen - 1) |->
                          IF i = 0 THEN 0 ELSE IF i = 1 THEN 137
                          ELSE IF i = 2 THEN 165 ELSE 74]

----------------------------------------------------------------------------
(* Claim about the codec (SpecCodec) *)

\* C9: for every write field d, every write buffer b and every value v that
\* fits d's width, setting d to v changes no byte of b other than b[d.byte],
\* changes no bit of that byte outside d.mask, and leaves the bits inside
\* d.mask equal to v << d.shift.
C9_SetWriteKeyFrame ==
    [][pc = "set_write_key" /\ pc' = "set_write_key_done" =>
         LET d == write_masks[args[1]]
             v == args[2]
         IN  /\ DOMAIN write_buffer' = DOMAIN write_buffer
             /\ \A i \in DOMAIN write_buffer :
                   i # d[1] => write_buffer'[i] = write_buffer[i]
             /\ BitAnd(write_buffer'[d[1]], 255 - d[2]) =
                    BitAnd(write_buffer[d[1]], 255 - d[2])
             /\ BitAnd(write_buffer'[d[1]], d[2]) = v * Pow2(d[3])
             /\ write_buffer'[d[1]] \in Byte]_vars

C9_Witness ==
    /\ pc = "set_write_key_done"
    /\ args = <<"RES1", 2>>
    /\ write_buffer = [i \in 0..(WriteLen - 1) |-> IF i = 1 THEN 247 ELSE 255]

====
